---- MODULE Spec2Model ----
(***************************************************************************)
(* Model of hw1/optimization.py: LineSearchTool.line_search,               *)
(* gradient_descent and newton.                                            *)
(*                                                                         *)
(* Numbers are exact rationals n/d extended with +-inf, nan and None.      *)
(* An operation whose floating-point-error flag is trapped yields the      *)
(* outcome "fpe" (FloatingPointError raised).  The finite range of a       *)
(* double is scaled down to [-MaxFloat, MaxFloat]; rounding and underflow  *)
(* are not modelled.                                                       *)
(***************************************************************************)
EXTENDS Integers, Sequences, FiniteSets, TLC

\* ------------------------------------------------------------------------
\* Bounds of the model
\* ------------------------------------------------------------------------
\* largest finite magnitude (scaled-down overflow threshold of a double)
MaxFloat == 40
\* largest max_iter passed to a driver
MaxIterBound == 2
\* cap on the number of halvings followed inside one Armijo loop
MaxHalvings == 3

\* ------------------------------------------------------------------------
\* Extended scalars
\* ------------------------------------------------------------------------
Abs(i) == IF i < 0 THEN -i ELSE i

RECURSIVE Gcd(_, _)
Gcd(a, b) == IF b = 0 THEN a ELSE Gcd(b, a % b)

Lcm(a, b) == (a \div Gcd(a, b)) * b

\* the rational n/d in lowest terms, d > 0
Fin(n, d) ==
    LET g == Gcd(Abs(n), Abs(d))
        s == IF d < 0 THEN -1 ELSE 1
    IN [k |-> "fin", n |-> (s * n) \div g, d |-> (s * d) \div g]

R(i) == [k |-> "fin", n |-> i, d |-> 1]
NaN == [k |-> "nan", n |-> 0, d |-> 1]
PInf == [k |-> "inf", n |-> 1, d |-> 1]
NInf == [k |-> "inf", n |-> -1, d |-> 1]
None == [k |-> "none", n |-> 0, d |-> 1]
\* outcome of an operation that raised FloatingPointError
FPE == [k |-> "fpe", n |-> 0, d |-> 1]

Sign(a) == IF a.n > 0 THEN 1 ELSE IF a.n < 0 THEN -1 ELSE 0
InfOf(s) == IF s > 0 THEN PInf ELSE NInf

\* a finite result is kept unless it leaves the finite range: overflow
\* raises when trapped and gives +-inf otherwise
Range(a, trap) ==
    IF a.k = "fin" /\ Abs(a.n) > MaxFloat * a.d
    THEN IF trap THEN FPE ELSE InfOf(a.n)
    ELSE a

\* an invalid operation (inf - inf, 0 * inf) raises when trapped, else nan
Invalid(trap) == IF trap THEN FPE ELSE NaN

XNeg(a) == IF a.k \in {"fin", "inf"} THEN [a EXCEPT !.n = -a.n] ELSE a

XAdd(a, b, trap) ==
    IF a.k = "fpe" \/ b.k = "fpe" THEN FPE
    ELSE IF a.k = "nan" \/ b.k = "nan" THEN NaN
    ELSE IF a.k = "inf" /\ b.k = "inf"
         THEN IF a.n = b.n THEN a ELSE Invalid(trap)
    ELSE IF a.k = "inf" THEN a
    ELSE IF b.k = "inf" THEN b
    ELSE Range(Fin(a.n * (Lcm(a.d, b.d) \div a.d) + b.n * (Lcm(a.d, b.d) \div b.d),
                   Lcm(a.d, b.d)), trap)

XMul(a, b, trap) ==
    IF a.k = "fpe" \/ b.k = "fpe" THEN FPE
    ELSE IF a.k = "nan" \/ b.k = "nan" THEN NaN
    ELSE IF a.k = "inf" \/ b.k = "inf"
         THEN IF Sign(a) = 0 \/ Sign(b) = 0 THEN Invalid(trap)
              ELSE InfOf(Sign(a) * Sign(b))
    ELSE LET g1 == Gcd(Abs(a.n), b.d)
             g2 == Gcd(Abs(b.n), a.d)
         IN Range(Fin((a.n \div g1) * (b.n \div g2),
                      (a.d \div g2) * (b.d \div g1)), trap)

XSub(a, b, trap) == XAdd(a, XNeg(b), trap)

XAbs(a) == IF a.k \in {"fin", "inf"} THEN [a EXCEPT !.n = Abs(a.n)] ELSE a

\* a <= b: "T", "F", "U" when an operand is nan, "E" when one raised
XLe(a, b) ==
    IF a.k = "fpe" \/ b.k = "fpe" THEN "E"
    ELSE IF a.k = "nan" \/ b.k = "nan" THEN "U"
    ELSE IF a.k = "inf" /\ b.k = "inf" THEN (IF a.n <= b.n THEN "T" ELSE "F")
    ELSE IF a.k = "inf" THEN (IF a.n < 0 THEN "T" ELSE "F")
    ELSE IF b.k = "inf" THEN (IF b.n > 0 THEN "T" ELSE "F")
    ELSE IF a.n * (Lcm(a.d, b.d) \div a.d) <= b.n * (Lcm(a.d, b.d) \div b.d)
         THEN "T" ELSE "F"

\* ------------------------------------------------------------------------
\* Vectors (np.array of dimension 1): sequences of extended scalars
\* ------------------------------------------------------------------------
VScale(a, v, trap) == [i \in 1..Len(v) |-> XMul(a, v[i], trap)]
VAdd(u, v, trap) == [i \in 1..Len(u) |-> XAdd(u[i], v[i], trap)]
VNeg(v) == [i \in 1..Len(v) |-> XNeg(v[i])]
VRaised(v) == \E i \in 1..Len(v) : v[i].k = "fpe"
\* np.any(np.isinf(v))
AnyInf(v) == \E i \in 1..Len(v) : v[i].k = "inf"
\* np.isnan(np.array(a).astype(np.float64)): None converts to nan
IsNanStep(a) == a.k \in {"nan", "none"}

RECURSIVE DotFrom(_, _, _, _)
DotFrom(u, v, i, trap) ==
    IF i > Len(u) THEN R(0)
    ELSE XAdd(XMul(u[i], v[i], trap), DotFrom(u, v, i + 1, trap), trap)

\* np.dot(u, v)
Dot(u, v, trap) == DotFrom(u, v, 1, trap)

\* np.linalg.norm(v) squared: the norm is sqrt(dot(v, v)), kept squared so
\* that it stays rational
Norm2(v, trap) == Dot(v, v, trap)

\* ------------------------------------------------------------------------
\* The oracle: f(x) = q/2 * <x, x> - b * sum(x), a quadratic with A = q*I.
\* An oracle written with numpy traps floating-point errors under
\* np.seterr(all='raise'); one written with Python floats never does.
\* ------------------------------------------------------------------------
RECURSIVE SumFrom(_, _, _)
SumFrom(v, i, trap) ==
    IF i > Len(v) THEN R(0) ELSE XAdd(v[i], SumFrom(v, i + 1, trap), trap)

OracleTrap(o, mode) == o.numpy /\ mode = "raise"

\* oracle.func(x)
OracleFunc(o, x, mode) ==
    LET t == OracleTrap(o, mode)
    IN XSub(XMul(Fin(o.q, 2), Dot(x, x, t), t),
            XMul(R(o.b), SumFrom(x, 1, t), t), t)

\* oracle.grad(x)
OracleGrad(o, x, mode) ==
    LET t == OracleTrap(o, mode)
    IN [i \in 1..Len(x) |-> XSub(XMul(R(o.q), x[i], t), R(o.b), t)]

\* oracle.hess(x) = q*I can be solved against iff q # 0
HessSingular(o) == o.q = 0

\* ------------------------------------------------------------------------
\* LineSearchTool
\* ------------------------------------------------------------------------
DefaultC1 == Fin(1, 10000)
DefaultC2 == Fin(9, 10)
DefaultAlpha0 == R(1)
DefaultC == R(1)

\* LineSearchTool.__init__: the fields each method keeps
ToolInit(method, c1, c2, alpha_0, c) ==
    IF method = "Wolfe"
    THEN [method |-> method, c1 |-> c1, c2 |-> c2, alpha_0 |-> alpha_0, c |-> None]
    ELSE IF method = "Armijo"
    THEN [method |-> method, c1 |-> c1, c2 |-> None, alpha_0 |-> alpha_0, c |-> None]
    ELSE [method |-> method, c1 |-> None, c2 |-> None, alpha_0 |-> None, c |-> c]

\* get_line_search_tool(None)
DefaultTool == ToolInit("Wolfe", DefaultC1, DefaultC2, DefaultAlpha0, None)

\* phi(a) = oracle.func(x_k + a * d_k)
Phi(o, x, d, a, mode) ==
    LET p == VAdd(x, VScale(a, d, mode = "raise"), mode = "raise")
    IN IF VRaised(p) THEN FPE ELSE OracleFunc(o, p, mode)

\* phi_derivative(a) = np.dot(oracle.grad(x_k + a * d_k), d_k)
PhiDerivative(o, x, d, a, mode) ==
    LET p == VAdd(x, VScale(a, d, mode = "raise"), mode = "raise")
    IN IF VRaised(p) THEN FPE
       ELSE Dot(OracleGrad(o, p, mode), d, mode = "raise")

\* armijo_condition(a): phi(a) <= phi(0) + c1 * a * phi_derivative(0)
\* c1 * a is a product of Python floats and never traps
ArmijoCondition(o, x, d, c1, a, mode) ==
    LET t == mode = "raise"
        rhs == XAdd(Phi(o, x, d, R(0), mode),
                    XMul(XMul(c1, a, FALSE), PhiDerivative(o, x, d, R(0), mode), t), t)
    IN XLe(Phi(o, x, d, a, mode), rhs)

\* variant: the warm start reuses previous_alpha without doubling it
ArmijoStart_NoDoubling(tool, previous_alpha) ==
    IF previous_alpha.k = "none" THEN tool.alpha_0 ELSE previous_alpha

\* first value of a in armijo(): 2 * previous_alpha is a Python float product
ArmijoStart(tool, previous_alpha) ==
    IF previous_alpha.k = "none" THEN tool.alpha_0
    ELSE XMul(R(2), previous_alpha, FALSE)

\* a /= 2
Halve(a) == XMul(a, Fin(1, 2), FALSE)

\* the strong Wolfe conditions at a
StrongWolfe(o, x, d, c1, c2, a) ==
    LET d0 == PhiDerivative(o, x, d, R(0), "warn")
        da == PhiDerivative(o, x, d, a, "warn")
    IN /\ d0.k = "fin" /\ da.k = "fin"
       /\ ArmijoCondition(o, x, d, c1, a, "warn") = "T"
       /\ XLe(XAbs(da), XMul(c2, XAbs(d0), FALSE)) = "T"

\* the step scipy gives up with when its doubling phase runs out of
\* iterations (1 doubled maxiter = 10 times)
WolfeMaxStep == R(1024)

\* scipy.optimize.line_search(oracle.func, oracle.grad, x_k, d_k, c1, c2):
\* always a tuple, whose first entry is the step, or None when the search did
\* not converge.  On phi(a) = phi(0) + a*s + a^2*qdd/2:
\*   s > 0 (no descent): the zoom phase fails, the step is None;
\*   s = 0 (d = 0): the first trial step 1 is accepted;
\*   s < 0, qdd > 0: step 1 if it satisfies the conditions, else the
\*     minimiser -s/qdd found by interpolation;
\*   s < 0, qdd = 0: no step satisfies the curvature condition, the trial
\*     step is doubled until the oracle overflows or maxiter is reached.
\* A trapping oracle raises FloatingPointError out of the search.
WolfeOutcomes(o, x, d, tool, mode) ==
    LET s == PhiDerivative(o, x, d, R(0), mode)
        qdd == XMul(R(o.q), Dot(d, d, FALSE), FALSE)
        tuple(al) == [raised |-> FALSE, none |-> FALSE, alpha |-> al]
        raise == [raised |-> TRUE, none |-> FALSE, alpha |-> None]
    IN IF s.k = "fpe" \/ Phi(o, x, d, R(0), mode).k = "fpe" THEN {raise}
       ELSE IF s.k # "fin" \/ qdd.k # "fin"
       THEN {tuple(None), tuple(WolfeMaxStep)}
       ELSE IF s.n > 0 THEN {tuple(None)}
       ELSE IF s.n = 0 THEN {tuple(R(1))}
       ELSE IF qdd.n = 0
       THEN (IF OracleTrap(o, mode) THEN {raise} ELSE {tuple(WolfeMaxStep)})
       ELSE IF Phi(o, x, d, R(1), mode).k = "fpe" THEN {raise}
       ELSE IF StrongWolfe(o, x, d, tool.c1, tool.c2, R(1)) THEN {tuple(R(1))}
       ELSE {tuple(Fin(-s.n * qdd.d, s.d * qdd.n))}

\* ------------------------------------------------------------------------
\* Arguments the drivers are called with
\* ------------------------------------------------------------------------
OracleSet ==
    {[q |-> qb[1], b |-> qb[2], numpy |-> np] :
        qb \in {<<0, 2>>, <<1, 0>>, <<3, 0>>}, np \in BOOLEAN}

X0Set == {<<R(2)>>, <<R(30)>>, <<PInf>>, <<R(1), R(0), R(1)>>}

ToleranceSet == {R(-1), Fin(1, 4), R(1)}

ToolSet ==
    {ToolInit("Constant", None, None, None, DefaultC),
     ToolInit("Constant", None, None, None, R(4)),
     ToolInit("Constant", None, None, None, NaN),
     ToolInit("Armijo", Fin(1, 4), None, DefaultAlpha0, None),
     ToolInit("Armijo", DefaultC1, None, R(2), None),
     DefaultTool}

\* arguments of a direct call of line_search
LSPointSet == {<<R(2)>>, <<R(-1)>>}
LSDirSet == {<<R(-6)>>, <<R(3)>>, <<R(-1)>>}
LSPrevSet == {None, Fin(1, 2), Fin(1, 4)}

\* ------------------------------------------------------------------------
\* State
\* ------------------------------------------------------------------------
VARIABLES
    errmode,     \* process-wide numpy error mode (np.seterr): "warn" | "raise"
    saved_err,   \* the error mode the caller had when the active call began
    call,        \* the active call: function and arguments
    pc,          \* position inside the active call
    x_k,         \* current point
    d_k,         \* current direction
    a_k,         \* last step returned by line_search (None before the first)
    it,          \* completed passes of the for loop (= point updates done)
    history,     \* trace: [on |-> trace, d |-> defaultdict(list)]
    ls,          \* locals of line_search: [a, j, prev]
    returned,    \* steps returned by line_search during the active call
    result       \* what the call returned

vars == <<errmode, saved_err, call, pc, x_k, d_k, a_k, it, history, ls,
          returned, result>>

NoOracle == [q |-> 0, b |-> 0, numpy |-> FALSE]
NoCall == [fn |-> "none", oracle |-> NoOracle, x_0 |-> <<>>, tolerance |-> R(0),
           max_iter |-> 0, tool |-> DefaultTool, trace |-> FALSE]
NoLS == [a |-> None, j |-> 0, prev |-> None]
EmptyDict == [key \in {} |-> <<>>]
NoHistory == [on |-> FALSE, d |-> EmptyDict]
NoResult == [x |-> <<>>, message |-> "", history |-> NoHistory, step |-> None]

\* history[key].append(v) on a defaultdict(list)
DictAppend(h, key, v) ==
    [kk \in DOMAIN h \cup {key} |->
        IF kk = key
        THEN (IF key \in DOMAIN h THEN Append(h[key], v) ELSE <<v>>)
        ELSE h[kk]]

\* len(history[key]) without creating the key
DictLen(h, key) == IF key \in DOMAIN h THEN Len(h[key]) ELSE 0

Init ==
    /\ errmode = "warn"
    /\ saved_err = "warn"
    /\ call = NoCall
    /\ pc = "idle"
    /\ x_k = <<>>
    /\ d_k = <<>>
    /\ a_k = None
    /\ it = 0
    /\ history = NoHistory
    /\ ls = NoLS
    /\ returned = <<>>
    /\ result = NoResult

\* ------------------------------------------------------------------------
\* gradient_descent
\* ------------------------------------------------------------------------
\* a comparison with a nan operand is False, or raises where the build
\* flags it as an invalid operation
Outcomes(c) == IF c = "U" THEN {"F", "E"} ELSE {c}

\* np.linalg.norm(g_k) <= tolerance * np.linalg.norm(g_0), on squared norms
NormLe(nk2, tol, n02, trap) ==
    LET r2 == IF n02.k = "fin"
              THEN Fin(tol.n * tol.n * n02.n, tol.d * tol.d * n02.d)
              ELSE n02
        over == n02.k = "fin" /\ r2.n > MaxFloat * MaxFloat * r2.d
    IN IF n02.k = "inf" /\ Sign(tol) = 0 THEN (IF trap THEN "E" ELSE "U")
       ELSE IF over /\ trap THEN "E"
       ELSE IF nk2.k = "nan" \/ n02.k = "nan" THEN "U"
       ELSE IF n02.k = "inf" \/ over
            THEN (IF Sign(tol) > 0 THEN "T" ELSE "F")
       ELSE IF nk2.k = "inf" THEN "F"
       ELSE IF Sign(tol) >= 0 THEN XLe(nk2, r2)
       ELSE IF nk2.n = 0 /\ n02.n = 0 THEN "T" ELSE "F"

\* time_to_stop(x_k)
TimeToStop(o, x0, xk, tol, mode) ==
    LET t == mode = "raise"
        g_0 == OracleGrad(o, x0, mode)
        g_k == OracleGrad(o, xk, mode)
        nk2 == Norm2(g_k, t)
        n02 == Norm2(g_0, t)
    IN IF VRaised(g_0) \/ VRaised(g_k) THEN "E"
       ELSE IF nk2.k = "fpe" \/ n02.k = "fpe" THEN "E"
       ELSE NormLe(nk2, tol, n02, t)

\* return x, message, history
GDReturn(x, message, h) ==
    /\ pc' = "done"
    /\ result' = [x |-> x, message |-> message, history |-> h, step |-> None]

\* variant: the handler returns the current iterate instead of x_0
ComputationalError_ReturnsCurrent(h) == GDReturn(x_k, "computational_error", h)

\* except FloatingPointError: return x_0, 'computational_error', history
ComputationalError(h) == GDReturn(call.x_0, "computational_error", h)

\* entry of gradient_descent up to the first pass of the loop
GradientDescent(o, x0, tol, mi, tool, tr) ==
    /\ pc = "idle"
    /\ saved_err' = errmode
    /\ errmode' = "raise"
    /\ call' = [fn |-> "gd", oracle |-> o, x_0 |-> x0, tolerance |-> tol,
                max_iter |-> mi, tool |-> tool, trace |-> tr]
    /\ history' = [on |-> tr, d |-> EmptyDict]
    /\ x_k' = x0
    /\ a_k' = None
    /\ it' = 0
    /\ pc' = "extend"
    /\ UNCHANGED <<d_k, ls, returned, result>>

\* variant: the point is recorded for every dimension up to 3
ExtendHistory_XUpTo3 ==
    /\ pc = "extend"
    /\ call.fn = "gd"
    /\ LET g_k == OracleGrad(call.oracle, x_k, errmode)
           f == OracleFunc(call.oracle, x_k, errmode)
           n == Norm2(g_k, errmode = "raise")
           h1 == DictAppend(history.d, "time", R(0))
           h2 == DictAppend(h1, "func", f)
           h3 == DictAppend(h2, "grad_norm", n)
           h4 == IF Len(x_k) <= 3 THEN DictAppend(h3, "x", x_k) ELSE h3
       IN IF ~history.on
          THEN pc' = "stop" /\ UNCHANGED <<history, result>>
          ELSE IF VRaised(g_k)
          THEN ComputationalError(history) /\ UNCHANGED history
          ELSE IF f.k = "fpe"
          THEN /\ history' = [history EXCEPT !.d = h1]
               /\ ComputationalError(history')
          ELSE IF n.k = "fpe"
          THEN /\ history' = [history EXCEPT !.d = h2]
               /\ ComputationalError(history')
          ELSE /\ history' = [history EXCEPT !.d = h4]
               /\ pc' = "stop"
               /\ UNCHANGED result
    /\ UNCHANGED <<errmode, saved_err, call, x_k, d_k, a_k, it, ls, returned>>

\* extend_history(x_k); grad_norm entries are kept squared and time
\* entries are not modelled (always 0)
ExtendHistory ==
    /\ pc = "extend"
    /\ call.fn = "gd"
    /\ LET g_k == OracleGrad(call.oracle, x_k, errmode)
           f == OracleFunc(call.oracle, x_k, errmode)
           n == Norm2(g_k, errmode = "raise")
           h1 == DictAppend(history.d, "time", R(0))
           h2 == DictAppend(h1, "func", f)
           h3 == DictAppend(h2, "grad_norm", n)
           h4 == IF Len(x_k) <= 2 THEN DictAppend(h3, "x", x_k) ELSE h3
       IN IF ~history.on
          THEN pc' = "stop" /\ UNCHANGED <<history, result>>
          ELSE IF VRaised(g_k)
          THEN ComputationalError(history) /\ UNCHANGED history
          ELSE IF f.k = "fpe"
          THEN /\ history' = [history EXCEPT !.d = h1]
               /\ ComputationalError(history')
          ELSE IF n.k = "fpe"
          THEN /\ history' = [history EXCEPT !.d = h2]
               /\ ComputationalError(history')
          ELSE /\ history' = [history EXCEPT !.d = h4]
               /\ pc' = "stop"
               /\ UNCHANGED result
    /\ UNCHANGED <<errmode, saved_err, call, x_k, d_k, a_k, it, ls, returned>>

\* variant: no stopping test after the last pass of the loop
StopTest_NoFinalCheck ==
    /\ pc = "stop"
    /\ call.fn = "gd"
    /\ IF it >= call.max_iter
       THEN GDReturn(x_k, "iterations_exceeded", history)
       ELSE \E out \in Outcomes(TimeToStop(call.oracle, call.x_0, x_k,
                                           call.tolerance, errmode)) :
               IF out = "T" THEN GDReturn(x_k, "success", history)
               ELSE IF out = "E" THEN ComputationalError(history)
               ELSE pc' = "search" /\ UNCHANGED result
    /\ UNCHANGED <<errmode, saved_err, call, x_k, d_k, a_k, it, history, ls,
                   returned>>

\* if time_to_stop(x_k): return success; the for loop falls through to
\* 'iterations_exceeded' once max_iter passes are done
StopTest ==
    /\ pc = "stop"
    /\ call.fn = "gd"
    /\ \E out \in Outcomes(TimeToStop(call.oracle, call.x_0, x_k,
                                      call.tolerance, errmode)) :
          IF out = "T" THEN GDReturn(x_k, "success", history)
          ELSE IF out = "E" THEN ComputationalError(history)
          ELSE IF it < call.max_iter THEN pc' = "search" /\ UNCHANGED result
          ELSE GDReturn(x_k, "iterations_exceeded", history)
    /\ UNCHANGED <<errmode, saved_err, call, x_k, d_k, a_k, it, history, ls,
                   returned>>

\* ------------------------------------------------------------------------
\* LineSearchTool.line_search
\* ------------------------------------------------------------------------
\* line_search hands v back to its caller
LSReturn(fn, v) ==
    /\ returned' = Append(returned, v)
    /\ IF fn = "gd"
       THEN a_k' = v /\ pc' = "checks" /\ UNCHANGED result
       ELSE /\ pc' = "done"
            /\ result' = [NoResult EXCEPT !.message = "returned", !.step = v]
            /\ UNCHANGED a_k

\* a FloatingPointError leaves line_search: gradient_descent catches it, a
\* direct caller sees it
LSRaise(fn) ==
    /\ UNCHANGED <<a_k, returned>>
    /\ IF fn = "gd"
       THEN ComputationalError(history)
       ELSE /\ pc' = "done"
            /\ result' = [NoResult EXCEPT !.message = "FloatingPointError"]

\* armijo() up to its loop
ArmijoEnter(tool, prev) ==
    /\ ls' = [a |-> ArmijoStart(tool, prev), j |-> 0, prev |-> prev]
    /\ pc' = "armijo"
    /\ UNCHANGED <<a_k, returned, result>>

\* the dispatch on self._method
LineSearch(fn, o, x, d, tool, prev, mode) ==
    IF tool.method = "Wolfe"
    THEN \E a \in WolfeOutcomes(o, x, d, tool, mode) :
            IF a.raised
            THEN LSRaise(fn) /\ ls' = [NoLS EXCEPT !.prev = prev]
            ELSE IF a.none
            THEN ArmijoEnter(tool, prev)
            ELSE LSReturn(fn, a.alpha) /\ ls' = [NoLS EXCEPT !.prev = prev]
    ELSE IF tool.method = "Armijo"
    THEN ArmijoEnter(tool, prev)
    ELSE LSReturn(fn, tool.c) /\ ls' = [NoLS EXCEPT !.prev = prev]

\* one test of the while loop of armijo()
ArmijoStep ==
    /\ pc = "armijo"
    /\ \E out \in Outcomes(ArmijoCondition(call.oracle, x_k, d_k, call.tool.c1,
                                           ls.a, errmode)) :
          IF out = "T" THEN LSReturn(call.fn, ls.a) /\ UNCHANGED ls
          ELSE IF out = "E" THEN LSRaise(call.fn) /\ UNCHANGED ls
          ELSE /\ ls.j < MaxHalvings
               /\ ls' = [ls EXCEPT !.a = Halve(ls.a), !.j = ls.j + 1]
               /\ UNCHANGED <<pc, a_k, returned, result>>
    /\ UNCHANGED <<errmode, saved_err, call, x_k, d_k, it, history>>

\* a direct call of line_search(oracle, x_k, d_k, previous_alpha)
LineSearchCall(o, x, d, prev, tool) ==
    /\ pc = "idle"
    /\ saved_err' = errmode
    /\ call' = [NoCall EXCEPT !.fn = "ls", !.oracle = o, !.x_0 = x, !.tool = tool]
    /\ x_k' = x
    /\ d_k' = d
    /\ LineSearch("ls", o, x, d, tool, prev, errmode)
    /\ UNCHANGED <<errmode, it, history>>

\* variant: every line search is started without a previous step
Search_NoWarmStart ==
    /\ pc = "search"
    /\ call.fn = "gd"
    /\ LET g_k == OracleGrad(call.oracle, x_k, errmode)
       IN IF VRaised(g_k)
          THEN ComputationalError(history) /\ UNCHANGED <<d_k, a_k, ls, returned>>
          ELSE /\ d_k' = VNeg(g_k)
               /\ LineSearch("gd", call.oracle, x_k, VNeg(g_k), call.tool, None,
                             errmode)
    /\ UNCHANGED <<errmode, saved_err, call, x_k, it, history>>

\* g_k = oracle.grad(x_k); d_k = -g_k; a_k = line_search(..., previous_alpha=a_k)
Search ==
    /\ pc = "search"
    /\ call.fn = "gd"
    /\ LET g_k == OracleGrad(call.oracle, x_k, errmode)
       IN IF VRaised(g_k)
          THEN ComputationalError(history) /\ UNCHANGED <<d_k, a_k, ls, returned>>
          ELSE /\ d_k' = VNeg(g_k)
               /\ LineSearch("gd", call.oracle, x_k, VNeg(g_k), call.tool, a_k,
                             errmode)
    /\ UNCHANGED <<errmode, saved_err, call, x_k, it, history>>

\* variant: the Inf check on x_k comes before the NaN check on a_k
Checks_InfFirst ==
    /\ pc = "checks"
    /\ call.fn = "gd"
    /\ LET t == errmode = "raise"
           x_new == VAdd(x_k, VScale(a_k, d_k, t), t)
       IN IF AnyInf(x_k)
          THEN GDReturn(x_k, "x_k computational_error", history) /\ UNCHANGED <<x_k, it>>
          ELSE IF IsNanStep(a_k)
          THEN GDReturn(x_k, "a_k computational_error", history) /\ UNCHANGED <<x_k, it>>
          ELSE IF AnyInf(d_k)
          THEN GDReturn(x_k, "d_k computational_error", history) /\ UNCHANGED <<x_k, it>>
          ELSE IF VRaised(x_new)
          THEN ComputationalError(history) /\ UNCHANGED <<x_k, it>>
          ELSE x_k' = x_new /\ it' = it + 1 /\ pc' = "extend" /\ UNCHANGED result
    /\ UNCHANGED <<errmode, saved_err, call, d_k, a_k, history, ls, returned>>

\* the three checks on a_k, x_k, d_k and the update x_k = x_k + a_k * d_k
Checks ==
    /\ pc = "checks"
    /\ call.fn = "gd"
    /\ LET t == errmode = "raise"
           x_new == VAdd(x_k, VScale(a_k, d_k, t), t)
       IN IF IsNanStep(a_k)
          THEN GDReturn(x_k, "a_k computational_error", history) /\ UNCHANGED <<x_k, it>>
          ELSE IF AnyInf(x_k)
          THEN GDReturn(x_k, "x_k computational_error", history) /\ UNCHANGED <<x_k, it>>
          ELSE IF AnyInf(d_k)
          THEN GDReturn(x_k, "d_k computational_error", history) /\ UNCHANGED <<x_k, it>>
          ELSE IF VRaised(x_new)
          THEN ComputationalError(history) /\ UNCHANGED <<x_k, it>>
          ELSE x_k' = x_new /\ it' = it + 1 /\ pc' = "extend" /\ UNCHANGED result
    /\ UNCHANGED <<errmode, saved_err, call, d_k, a_k, history, ls, returned>>

\* ------------------------------------------------------------------------
\* newton
\* ------------------------------------------------------------------------
Newton(o, x0, tol, mi, tool, tr) ==
    /\ pc = "idle"
    /\ saved_err' = errmode
    /\ call' = [fn |-> "newton", oracle |-> o, x_0 |-> x0, tolerance |-> tol,
                max_iter |-> mi, tool |-> tool, trace |-> tr]
    /\ history' = [on |-> tr, d |-> EmptyDict]
    /\ x_k' = x0
    /\ GDReturn(x_k', "success", history')
    /\ UNCHANGED <<errmode, d_k, a_k, it, ls, returned>>

\* ------------------------------------------------------------------------
\* The caller takes the result; the locals of the call are gone, the
\* process-wide error mode stays as the call left it
\* ------------------------------------------------------------------------
Finish ==
    /\ pc = "done"
    /\ pc' = "idle"
    /\ call' = NoCall
    /\ x_k' = <<>>
    /\ d_k' = <<>>
    /\ a_k' = None
    /\ it' = 0
    /\ history' = NoHistory
    /\ ls' = NoLS
    /\ returned' = <<>>
    /\ result' = NoResult
    /\ saved_err' = errmode
    /\ UNCHANGED errmode

CallGradientDescent ==
    \E o \in OracleSet, x0 \in X0Set, tol \in ToleranceSet,
       mi \in 0..MaxIterBound, tool \in ToolSet, tr \in BOOLEAN :
        GradientDescent(o, x0, tol, mi, tool, tr)

CallNewton ==
    \E o \in OracleSet, x0 \in X0Set, tol \in ToleranceSet,
       mi \in 0..MaxIterBound, tool \in ToolSet, tr \in BOOLEAN :
        Newton(o, x0, tol, mi, tool, tr)

CallLineSearch ==
    \E o \in OracleSet, x \in LSPointSet, d \in LSDirSet, prev \in LSPrevSet,
       tool \in ToolSet :
        LineSearchCall(o, x, d, prev, tool)

Next ==
    \/ CallGradientDescent
    \/ ExtendHistory
    \/ StopTest
    \/ Search
    \/ ArmijoStep
    \/ Checks
    \/ CallNewton
    \/ CallLineSearch
    \/ Finish

Spec == Init /\ [][Next]_vars

\* ------------------------------------------------------------------------
\* Properties
\* ------------------------------------------------------------------------
InGD == call.fn = "gd"
Returned == pc = "done"
Message == result.message
Dim == Len(call.x_0)

\* the stopping test of the active call, evaluated at x
TestAt(x) == TimeToStop(call.oracle, call.x_0, x, call.tolerance, "raise")

\* the value line_search handed back last
LastStep == returned[Len(returned)]

\* C1: under the Wolfe policy line_search never hands None back to its
\* caller: a strong-Wolfe search that finds no step is replaced by the
\* Armijo backtracking step.
C1_WolfeFallsBackToArmijo ==
    (call.tool.method = "Wolfe" /\ Len(returned) > 0) => LastStep.k # "none"

\* C2: newton() started where the stopping test fails, with at least one
\* iteration allowed and a singular Hessian, returns x_0 unchanged with
\* 'newton_direction_error'.
C2_NewtonDirectionError ==
    (/\ Returned
     /\ call.fn = "newton"
     /\ call.max_iter >= 1
     /\ HessSingular(call.oracle)
     /\ TestAt(call.x_0) = "F")
    => (Message = "newton_direction_error" /\ result.x = call.x_0)

\* C3: newton() returns 'success' only at a point that passes the stopping
\* test, and with tracing on its history holds at least one record.
C3_NewtonMirrorsGradientDescent ==
    (Returned /\ call.fn = "newton")
    => /\ (Message = "success" => TestAt(result.x) = "T")
       /\ (call.trace => DictLen(result.history.d, "func") >= 1)

\* the points recorded in history['x'] before the last one
EarlierPoints ==
    IF "x" \in DOMAIN result.history.d
    THEN {result.history.d["x"][i] : i \in 1..(Len(result.history.d["x"]) - 1)}
    ELSE {}

\* C4 as stated: gradient_descent returns 'success' if and only if the
\* returned point passes the stopping test, and 'iterations_exceeded' only
\* after max_iter updates with the test failing at the returned point.
C4_SuccessIffTest ==
    (Returned /\ InGD)
    => /\ (Message = "success") <=> (TestAt(result.x) = "T")
       /\ (Message = "iterations_exceeded"
              => it = call.max_iter /\ TestAt(result.x) # "T")

\* C4 amended: 'success' is returned only at a point that passes the test,
\* and at the first such iterate; a return with any status other than
\* 'computational_error' at a point that passes the test is 'success';
\* 'iterations_exceeded' is returned only after exactly max_iter updates
\* with the test failing at every iterate.
C4_SuccessIffTestUnlessFPE ==
    (Returned /\ InGD)
    => /\ (Message = "success" => TestAt(result.x) = "T" /\ it <= call.max_iter)
       /\ (Message # "computational_error" /\ TestAt(result.x) = "T"
              => Message = "success")
       /\ (Message = "iterations_exceeded"
              => it = call.max_iter /\ TestAt(result.x) # "T")
       /\ (Message \in {"success", "iterations_exceeded"}
              => \A x \in EarlierPoints : TestAt(x) # "T")

C4_Witness ==
    /\ Returned /\ InGD
    /\ Message = "success"
    /\ it = 2
    /\ call.trace
    /\ Cardinality(EarlierPoints) = 2

\* the lengths of the trace lists of the returned history
HLen(key) == DictLen(result.history.d, key)

TraceShape ==
    IF call.trace
    THEN /\ result.history.on
         /\ HLen("func") = it + 1
         /\ HLen("grad_norm") = it + 1
         /\ HLen("time") = it + 1
         /\ ("x" \in DOMAIN result.history.d) <=> (Dim <= 2)
         /\ ("x" \in DOMAIN result.history.d) => HLen("x") = HLen("func")
    ELSE ~result.history.on

\* C5 as stated: on every return of gradient_descent, whatever the status,
\* the trace lists func, grad_norm and time have length (updates + 1) and x
\* is present, with the same length, iff the dimension is <= 2; without
\* tracing the history is None.
C5_TraceShapeAlways ==
    (Returned /\ InGD) => TraceShape

\* C5 amended: the same on every return with a status other than
\* 'computational_error'; without tracing the history is None whatever the
\* status.
C5_TraceShapeUnlessFPE ==
    (Returned /\ InGD)
    => /\ (Message # "computational_error" => TraceShape)
       /\ (~call.trace => ~result.history.on)

C5_Witness ==
    /\ Returned /\ InGD
    /\ call.trace
    /\ Message = "iterations_exceeded"
    /\ Dim = 3
    /\ it = 2
    /\ HLen("func") = 3
    /\ "x" \notin DOMAIN result.history.d

\* the step gradient_descent is about to take raises FloatingPointError
RaisesNow ==
    /\ InGD
    /\ \/ /\ pc = "extend"
          /\ history.on
          /\ \/ VRaised(OracleGrad(call.oracle, x_k, errmode))
             \/ OracleFunc(call.oracle, x_k, errmode).k = "fpe"
             \/ Norm2(OracleGrad(call.oracle, x_k, errmode), TRUE).k = "fpe"
       \/ /\ pc = "stop"
          /\ TestAt(x_k) = "E"
       \/ /\ pc = "search"
          /\ VRaised(OracleGrad(call.oracle, x_k, errmode))
       \/ /\ pc = "armijo"
          /\ ArmijoCondition(call.oracle, x_k, d_k, call.tool.c1, ls.a, errmode) = "E"
       \/ /\ pc = "checks"
          /\ ~IsNanStep(a_k) /\ ~AnyInf(x_k) /\ ~AnyInf(d_k)
          /\ VRaised(VAdd(x_k, VScale(a_k, d_k, TRUE), TRUE))

\* C6: a floating-point exception raised at any step of gradient_descent is
\* caught: the call returns the original x_0 with 'computational_error' and
\* the history accumulated so far, and no exception reaches the caller.
C6_FloatingPointErrorCaught ==
    [][/\ RaisesNow
          => /\ pc' = "done"
             /\ result'.message = "computational_error"
             /\ result'.x = call.x_0
             /\ result'.history = history'
       /\ (InGD /\ pc' = "done")
          => /\ result'.message # "FloatingPointError"
             /\ result'.message = "computational_error" => result'.x = call.x_0]_vars

C6_Witness ==
    /\ Returned /\ InGD
    /\ Message = "computational_error"
    /\ it >= 1
    /\ x_k # call.x_0
    /\ result.x = call.x_0
    /\ HLen("time") >= 1

\* line_search has just handed back the result of armijo()
ArmijoReturned ==
    /\ call.tool.method = "Armijo"
    /\ Len(returned) > 0
    /\ \/ InGD /\ pc = "checks"
       \/ call.fn = "ls" /\ pc = "done" /\ Message = "returned"

\* a / 2^i
DivPow2(a, i) == Fin(a.n, a.d * 2^i)

\* the starting step the claim prescribes
WarmStart(prev) ==
    IF prev.k = "none" THEN call.tool.alpha_0 ELSE Fin(2 * prev.n, prev.d)

SufficientDecrease(a) ==
    ArmijoCondition(call.oracle, x_k, d_k, call.tool.c1, a, errmode) = "T"

C8_ErrorModeRestored ==
    /\ (call.fn \in {"gd", "newton"} /\ pc \notin {"idle", "done"})
          => errmode = "raise"
    /\ (call.fn \in {"gd", "newton"} /\ Returned) => errmode = saved_err

\* gradient_descent returns the not-yet-updated x_k with message m
ReturnsCurrent(m) ==
    /\ pc' = "done"
    /\ result'.message = m
    /\ result'.x = x_k

CheckMessages ==
    {"a_k computational_error", "x_k computational_error", "d_k computational_error"}

C10_WarmStartChaining ==
    (InGD /\ pc \in {"armijo", "checks"})
    => /\ ls.prev = (IF it = 0 THEN None ELSE returned[it])
       /\ (pc = "checks" /\ call.tool.method = "Armijo")
             => XLe(a_k, WarmStart(IF it = 0 THEN None ELSE returned[it])) = "T"

C10_Witness ==
    /\ InGD
    /\ pc = "checks"
    /\ call.tool.method = "Armijo"
    /\ it >= 1
    /\ a_k = Fin(2 * returned[it].n, returned[it].d)

====
